---- MODULE Spec2Model ----
(***************************************************************************)
(* A model of python-sdk/nuimages/nuimages.py: the NuImages table store    *)
(* (lazy table loading, token -> index reverse maps, the sample ->         *)
(* keyframe map) and render_image.                                         *)
(*                                                                         *)
(* Python values are modelled as follows.                                  *)
(*   None / a value v      : the sequences << >> and << v >>               *)
(*   a list                : a sequence (Python index i is position i + 1) *)
(*   a dict                : a function whose DOMAIN is the set of keys    *)
(*   a JSON record         : a record; a key the JSON object lacks is      *)
(*                           absent from its DOMAIN                        *)
(*   a raised exception    : [type |-> its class, line |-> the source line *)
(*                           that raises it]                               *)
(* A method is an operator from the object's state (a record st holding    *)
(* the instance attributes) and its arguments to [st, exc, ret]: the       *)
(* state it leaves behind, the exception it raised (NoExc if none) and     *)
(* the value it returned.  State changes made before an exception is       *)
(* raised are kept, as in Python.                                          *)
(***************************************************************************)
EXTENDS Naturals, Integers, Sequences, FiniteSets, TLC

VARIABLES
    version,                  \* self.version: the dataset version, a directory of dataroot
    missing,                  \* the table names whose .json file does not exist
    dir_exists,               \* osp.exists(self.table_root)
    phase,                    \* "new" | "ready" | "failed": where __init__ got
    lazy,                     \* self.lazy
    self_dict,                \* self.__dict__, restricted to the table attributes
    token2ind,                \* self._token2ind
    sample_to_key_frame_map,  \* self.sample_to_key_frame_map
    reads,                    \* table name -> how often its file was opened and parsed
    scans,                    \* table name -> how often getind started to scan the table
    kf_scans,                 \* how often sample_to_key_frame started to scan sample_data
    nops,                     \* the number of calls made on the object so far
    last,                     \* the last call: its name, arguments and outcome
    threads,                  \* thread -> its place in a getind call and its locals
    overlap                   \* whether a call began while another was under way

envVars   == << version, missing, dir_exists >>
storeVars == << self_dict, token2ind, sample_to_key_frame_map >>
ghostVars == << reads, scans, kf_scans >>
vars      == << version, missing, dir_exists, phase, lazy, self_dict, token2ind,
                sample_to_key_frame_map, reads, scans, kf_scans, nops, last, threads,
                overlap >>

----------------------------------------------------------------------------
(* Bounds *)

\* The number of calls made on one store after its construction.
MaxOps == 2

----------------------------------------------------------------------------
(* Python values *)

None == << >>
Some(v) == << v >>
Val(o) == o[1]

EmptyDict == [k \in {} |-> 0]
DictSet(d, k, v) == [x \in (DOMAIN d) \cup {k} |-> IF x = k THEN v ELSE d[x]]

NoExc == [type |-> "none", line |-> 0]
AssertionError(l) == [type |-> "AssertionError", line |-> l]
KeyError(l) == [type |-> "KeyError", line |-> l]
AttributeError(l) == [type |-> "AttributeError", line |-> l]
IndexError(l) == [type |-> "IndexError", line |-> l]

Ok(st, ret) == [st |-> st, exc |-> NoExc, ret |-> ret]
Raise(st, exc) == [st |-> st, exc |-> exc, ret |-> None]

----------------------------------------------------------------------------
(* The tables *)

table_names == << "attribute", "calibrated_sensor", "category", "ego_pose", "log",
                  "object_ann", "sample", "sample_data", "sensor", "surface_ann" >>

TableNames == { table_names[i] : i \in DOMAIN table_names }

\* A name that is no table: the argument of a call on an unrecognized table.
UnknownTable == "lidarseg"

\* A token that no record of any table carries.
AbsentToken == "nil"

\* get_colormap(): category name -> colour.
color_map == [ n \in {"vehicle.car", "flat.driveable_surface"} |->
               IF n = "vehicle.car" THEN "orange" ELSE "teal" ]

\* Masks are run-length encoded over an image of ImagePixels pixels: the run
\* lengths of 0s and 1s in turn, starting with 0s.
ImagePixels == 1 .. 4

SampleDataA ==
    << [token |-> "sd1", sample_token |-> "s1", fileformat |-> "jpg", is_key_frame |-> TRUE,
        calibrated_sensor_token |-> "cs1", filename |-> "samples/1.jpg"],
       [token |-> "sd2", sample_token |-> "s1", fileformat |-> "bin", is_key_frame |-> TRUE,
        calibrated_sensor_token |-> "cs1", filename |-> "samples/2.bin"],
       [token |-> "sd3", sample_token |-> "s1", fileformat |-> "jpg", is_key_frame |-> FALSE,
        calibrated_sensor_token |-> "cs1", filename |-> "sweeps/3.jpg"] >>

\* A split without camera keyframes.
SampleDataB ==
    << [token |-> "sd1", sample_token |-> "s1", fileformat |-> "jpg", is_key_frame |-> FALSE,
        calibrated_sensor_token |-> "cs1", filename |-> "sweeps/1.jpg"],
       [token |-> "sd2", sample_token |-> "s1", fileformat |-> "bin", is_key_frame |-> TRUE,
        calibrated_sensor_token |-> "cs1", filename |-> "samples/2.bin"],
       [token |-> "sd3", sample_token |-> "s2", fileformat |-> "bin", is_key_frame |-> FALSE,
        calibrated_sensor_token |-> "cs1", filename |-> "sweeps/3.bin"] >>

SurfaceAnns ==
    << [token |-> "su1", sample_data_token |-> "sd1", category_token |-> "c2",
        mask |-> Some(<< 0, 3 >>)],
       [token |-> "su2", sample_data_token |-> "sd1", category_token |-> "c2",
        mask |-> None],
       [token |-> "su3", sample_data_token |-> "sd1", category_token |-> "c2",
        mask |-> Some(<< 2, 2 >>)],
       [token |-> "su4", sample_data_token |-> "sd2", category_token |-> "c2",
        mask |-> Some(<< 0, 4 >>)] >>

ObjectAnns ==
    << [token |-> "ob1", sample_data_token |-> "sd1", category_token |-> "c1",
        bbox |-> << 1, 0, 3, 1 >>, mask |-> Some(<< 1, 2, 1 >>),
        attribute_tokens |-> << "at1" >>],
       [token |-> "ob2", sample_data_token |-> "sd1", category_token |-> "c1",
        bbox |-> << 0, 0, 1, 1 >>, mask |-> None, attribute_tokens |-> << "at1" >>],
       [token |-> "ob3", sample_data_token |-> "sd1", category_token |-> "c1",
        bbox |-> << 2, 0, 4, 1 >>, mask |-> Some(<< 2, 2 >>), attribute_tokens |-> << >>],
       [token |-> "ob4", sample_data_token |-> "sd2", category_token |-> "c1",
        bbox |-> << 0, 0, 4, 1 >>, mask |-> Some(<< 0, 4 >>), attribute_tokens |-> << >>] >>

\* One dataset version: every table's records, in file order.  ego_pose holds two
\* records with one token, and log a record without a token field.
Database(sample_data, t) ==
        CASE t = "attribute" ->
               << [token |-> "at1", name |-> "vehicle.moving"] >>
          [] t = "calibrated_sensor" ->
               << [token |-> "cs1", sensor_token |-> "se1"] >>
          [] t = "category" ->
               << [token |-> "c1", name |-> "vehicle.car"],
                  [token |-> "c2", name |-> "flat.driveable_surface"] >>
          [] t = "ego_pose" ->
               << [token |-> "e1", timestamp |-> 1],
                  [token |-> "e2", timestamp |-> 2],
                  [token |-> "e1", timestamp |-> 3] >>
          [] t = "log" ->
               << [token |-> "l1", logfile |-> "n1", location |-> "boston"],
                  [logfile |-> "n2", location |-> "singapore"],
                  [token |-> "l3", logfile |-> "n3", location |-> "boston"] >>
          [] t = "object_ann" -> ObjectAnns
          [] t = "sample" ->
               << [token |-> "s1", log_token |-> "l1", timestamp |-> 1],
                  [token |-> "s2", log_token |-> "l1", timestamp |-> 2] >>
          [] t = "sample_data" -> sample_data
          [] t = "sensor" ->
               << [token |-> "se1", channel |-> "CAM_FRONT"] >>
          [] t = "surface_ann" -> SurfaceAnns

\* The dataset versions under dataroot.
Versions == { "v1.0-train", "v1.0-val" }

\* The records of <table_root>/<table_name>.json, were the file to exist.
files(table_name) ==
    Database(IF version = "v1.0-train" THEN SampleDataA ELSE SampleDataB, table_name)

\* The sets of missing table files a run starts from.
MissingChoices == { {} } \cup { {t} : t \in {"category", "sample_data"} }

\* The tokens the records of a table carry.
TokensOf(table) == { table[i].token : i \in { j \in DOMAIN table : "token" \in DOMAIN table[j] } }

----------------------------------------------------------------------------
(* The object's state *)

Self == [ dict |-> self_dict, token2ind |-> token2ind, kfmap |-> sample_to_key_frame_map,
          reads |-> reads, scans |-> scans, kf_scans |-> kf_scans ]

\* A statement sequence: the outcome r of a call is handed to the statements F
\* that follow it, unless the call raised, and then the exception propagates.
Then(r, F(_)) == IF r.exc # NoExc THEN r ELSE F(r)

\* The value v of an expression, named for the statements F that use it.
With(v, F(_)) == F(v)

\* self.__load_table__(table_name), lines 140-158.
__load_table__(st, table_name) ==
    IF table_name \notin TableNames \/ table_name \in missing
    THEN Raise(st, AssertionError(149))
    ELSE Ok([st EXCEPT !.reads[table_name] = @ + 1], files(table_name))

\* A load_table that reads the file whether or not the table is resident.
load_table_always(st, table_name) ==
    Then(__load_table__(st, table_name), LAMBDA r :
         Ok([r.st EXCEPT !.dict[table_name] = Some(r.ret)], None))

\* A load_table that recovers from a missing file with an empty table.
load_table_recovering(st, table_name) ==
    IF table_name \in TableNames /\ st.dict[table_name] # None
    THEN Ok(st, None)
    ELSE IF table_name \in TableNames /\ table_name \in missing
    THEN Ok([st EXCEPT !.dict[table_name] = Some(<< >>)], None)
    ELSE Then(__load_table__(st, table_name), LAMBDA r :
              Ok([r.st EXCEPT !.dict[table_name] = Some(r.ret)], None))

\* self.load_table(table_name), lines 129-138.
load_table(st, table_name) ==
    IF table_name \in TableNames /\ st.dict[table_name] # None
    THEN Ok(st, None)
    ELSE Then(__load_table__(st, table_name), LAMBDA r :
              Ok([r.st EXCEPT !.dict[table_name] = Some(r.ret)], None))

\* The attribute access self.<attr_name>: the instance dictionary first, and
\* __getattr__ (lines 84-94) when the attribute is not in it.
getattr(st, attr_name) ==
    IF attr_name \in TableNames /\ st.dict[attr_name] # None
    THEN Ok(st, Val(st.dict[attr_name]))
    ELSE IF attr_name \in TableNames
         THEN Then(load_table(st, attr_name), LAMBDA r :
                   Ok(r.st, Val(r.st.dict[attr_name])))
         ELSE Raise(st, AttributeError(94))

\* An index that numbers every record 0, as a loop without enumerate would.
index_member_unnumbered(d, member, ind) ==
    IF "token" \notin DOMAIN member THEN [d |-> d, exc |-> KeyError(118)]
    ELSE [d |-> DictSet(d, member.token, 0), exc |-> NoExc]

\* An index whose scan leaves out the first record of the table.
index_member_from_second(d, member, ind) ==
    IF "token" \notin DOMAIN member THEN [d |-> d, exc |-> KeyError(118)]
    ELSE [d |-> IF ind = 0 THEN d ELSE DictSet(d, member.token, ind), exc |-> NoExc]

\* An index that keeps the first position it saw for a token.
index_member_first_wins(d, member, ind) ==
    IF "token" \notin DOMAIN member THEN [d |-> d, exc |-> KeyError(118)]
    ELSE [d |-> IF member.token \in DOMAIN d THEN d ELSE DictSet(d, member.token, ind),
          exc |-> NoExc]

\* Line 118, self._token2ind[table_name][member['token']] = ind, on the dict d.
index_member(d, member, ind) ==
    IF "token" \notin DOMAIN member THEN [d |-> d, exc |-> KeyError(118)]
    ELSE [d |-> DictSet(d, member.token, ind), exc |-> NoExc]

\* The loop of lines 117-118 from the record at position i on: d is
\* self._token2ind[table_name] so far.
RECURSIVE ScanTokens(_, _, _)
ScanTokens(table, i, d) ==
    IF i > Len(table) THEN [d |-> d, exc |-> NoExc]
    ELSE Then(index_member(d, table[i], i - 1), LAMBDA e :
              ScanTokens(table, i + 1, e.d))

\* Lines 115-118: the reverse index of the table is built unless it is there.  Line
\* 116 stores an empty dict, line 117 reads self.<table_name>, and the loop fills
\* the stored dict record by record.
build_index(st, table_name) ==
    IF st.token2ind[table_name] # None THEN Ok(st, None)
    ELSE Then(getattr([st EXCEPT !.token2ind[table_name] = Some(EmptyDict)], table_name),
              LAMBDA g :
              With(ScanTokens(g.ret, 1, EmptyDict), LAMBDA s :
              With([g.st EXCEPT !.token2ind[table_name] = Some(s.d),
                                !.scans[table_name] = @ + 1], LAMBDA st2 :
                   IF s.exc # NoExc THEN Raise(st2, s.exc) ELSE Ok(st2, None))))

\* A getind that drops the table's index when the token is not in it.
getind_reset_on_miss(st, table_name, token) ==
    IF table_name \notin TableNames THEN Raise(st, KeyError(115))
    ELSE Then(build_index(st, table_name), LAMBDA built :
              With(Val(built.st.token2ind[table_name]), LAMBDA d :
                   IF token \in DOMAIN d THEN Ok(built.st, d[token])
                   ELSE Raise([built.st EXCEPT !.token2ind[table_name] = None],
                              KeyError(120))))

\* self.getind(table_name, token), lines 107-120.
getind(st, table_name, token) ==
    IF table_name \notin TableNames THEN Raise(st, KeyError(115))
    ELSE Then(build_index(st, table_name), LAMBDA built :
              With(Val(built.st.token2ind[table_name]), LAMBDA d :
                   IF token \in DOMAIN d THEN Ok(built.st, d[token])
                   ELSE Raise(built.st, KeyError(120))))

\* A get without the assertion of line 103 on the table name.
get_unchecked(st, table_name, token) ==
    Then(getattr(st, table_name), LAMBDA g :
    Then(getind(g.st, table_name, token), LAMBDA i :
         IF i.ret + 1 \notin DOMAIN g.ret THEN Raise(i.st, IndexError(105))
         ELSE Ok(i.st, g.ret[i.ret + 1])))

\* self.get(table_name, token), lines 96-105.  Python evaluates the subscripted
\* expression getattr(self, table_name) before the subscript self.getind(...).
get(st, table_name, token) ==
    IF table_name \notin TableNames THEN Raise(st, AssertionError(103))
    ELSE Then(getattr(st, table_name), LAMBDA g :
         Then(getind(g.st, table_name, token), LAMBDA i :
              IF i.ret + 1 \notin DOMAIN g.ret THEN Raise(i.st, IndexError(105))
              ELSE Ok(i.st, g.ret[i.ret + 1])))

\* Line 323: mapping = {'image': dict(), 'lidar': dict()}.
NewKeyFrameMapping == [m \in {"image", "lidar"} |-> EmptyDict]

\* The loop of lines 324-331 from the record at position i on.
RECURSIVE ScanKeyFrames(_, _, _)
ScanKeyFrames(table, i, mapping) ==
    IF i > Len(table) THEN [mapping |-> mapping, exc |-> NoExc]
    ELSE LET sample_data == table[i]
             sd_modality == IF sample_data.fileformat = "jpg" THEN "camera" ELSE "lidar"
         IN  IF ~sample_data.is_key_frame THEN ScanKeyFrames(table, i + 1, mapping)
             ELSE IF sd_modality \notin DOMAIN mapping
                  THEN [mapping |-> mapping, exc |-> KeyError(331)]
                  ELSE ScanKeyFrames(table, i + 1,
                         [mapping EXCEPT ![sd_modality] =
                            DictSet(@, sample_data.sample_token, sample_data.token)])

\* Lines 322-333: the keyframe mapping is built unless it is there.
build_key_frame_map(st) ==
    IF st.kfmap # None THEN Ok(st, None)
    ELSE Then(getattr(st, "sample_data"), LAMBDA g :
         With([g.st EXCEPT !.kf_scans = @ + 1], LAMBDA st1 :
         With(ScanKeyFrames(g.ret, 1, NewKeyFrameMapping), LAMBDA s :
              IF s.exc # NoExc THEN Raise(st1, s.exc)
              ELSE Ok([st1 EXCEPT !.kfmap = Some(s.mapping)], None))))

\* A sample_to_key_frame that answers None for a sample or a modality the mapping
\* does not hold, as a lookup with dict.get would.
sample_to_key_frame_or_none(st, sample_token, modality) ==
    Then(build_key_frame_map(st), LAMBDA built :
    With(Val(built.st.kfmap), LAMBDA m :
         IF modality \in DOMAIN m /\ sample_token \in DOMAIN m[modality]
         THEN Ok(built.st, m[modality][sample_token])
         ELSE Ok(built.st, None)))

\* self.sample_to_key_frame(sample_token, modality), lines 314-338.
sample_to_key_frame(st, sample_token, modality) ==
    Then(build_key_frame_map(st), LAMBDA built :
    With(Val(built.st.kfmap), LAMBDA m :
         IF modality \in DOMAIN m /\ sample_token \in DOMAIN m[modality]
         THEN Ok(built.st, m[modality][sample_token])
         ELSE Raise(built.st, KeyError(336))))

----------------------------------------------------------------------------
(* The listings.  What they print is left out; what they load, index and raise is not. *)

\* load_table for each name of a list in turn.
RECURSIVE LoadTables(_, _, _)
LoadTables(st, names, i) ==
    IF i > Len(names) THEN Ok(st, None)
    ELSE Then(load_table(st, names[i]), LAMBDA r : LoadTables(r.st, names, i + 1))

\* The "if self.lazy:" block that opens a listing.
LoadIfLazy(st, names) == IF lazy THEN LoadTables(st, names, 1) ELSE Ok(st, None)

\* self.get(table_name, rec[field]) for each record of a list in turn.
RECURSIVE GetEach(_, _, _, _, _)
GetEach(st, recs, i, table_name, field) ==
    IF i > Len(recs) THEN Ok(st, None)
    ELSE Then(get(st, table_name, recs[i][field]), LAMBDA r :
              GetEach(r.st, recs, i + 1, table_name, field))

\* self.list_attributes(), lines 160-181.
list_attributes(st) ==
    Then(LoadIfLazy(st, << "attribute", "object_ann" >>), LAMBDA l :
    Then(getattr(l.st, "object_ann"), LAMBDA o :
    Then(getattr(o.st, "attribute"), LAMBDA a :
         Ok(a.st, None))))

\* The loop of lines 200-204 from the record at position i on.
RECURSIVE CountChannels(_, _, _)
CountChannels(st, table, i) ==
    IF i > Len(table) THEN Ok(st, None)
    ELSE IF ~table[i].is_key_frame THEN CountChannels(st, table, i + 1)
    ELSE Then(get(st, "calibrated_sensor", table[i].calibrated_sensor_token), LAMBDA c :
         Then(get(c.st, "sensor", c.ret.sensor_token), LAMBDA s :
              CountChannels(s.st, table, i + 1)))

\* self.list_cameras(), lines 183-214.
list_cameras(st) ==
    Then(LoadIfLazy(st, << "sample", "sample_data", "calibrated_sensor", "sensor" >>),
         LAMBDA l :
    Then(getattr(l.st, "calibrated_sensor"), LAMBDA cs :
    Then(GetEach(cs.st, cs.ret, 1, "sensor", "sensor_token"), LAMBDA f :
    Then(getattr(f.st, "sample_data"), LAMBDA sd :
         CountChannels(sd.st, sd.ret, 1)))))

\* self.list_categories(sample_tokens), lines 216-258.
list_categories(st, sample_tokens) ==
    Then(LoadIfLazy(st, << "sample", "object_ann", "surface_ann", "category" >>),
         LAMBDA l :
    Then(getattr(l.st, "object_ann"), LAMBDA o :
    Then(GetEach(o.st, o.ret, 1, "sample_data", "sample_data_token"), LAMBDA fo :
    Then(getattr(fo.st, "surface_ann"), LAMBDA s :
    Then(GetEach(s.st, s.ret, 1, "sample_data", "sample_data_token"), LAMBDA fs :
    Then(getattr(fs.st, "category"), LAMBDA c :
         Ok(c.st, None)))))))

\* self.list_logs(), lines 260-283.
list_logs(st) ==
    Then(LoadIfLazy(st, << "sample", "log" >>), LAMBDA l :
    Then(getattr(l.st, "sample"), LAMBDA s :
    Then(getattr(s.st, "log"), LAMBDA g :
         IF \E i \in DOMAIN g.ret : "token" \notin DOMAIN g.ret[i]
         THEN Raise(g.st, KeyError(279))
         ELSE Ok(g.st, None))))

\* self.list_sample_content(sample_token), lines 285-312.
list_sample_content(st, sample_token) ==
    Then(LoadIfLazy(st, << "sample_data", "sample" >>), LAMBDA l :
    Then(getattr(l.st, "sample_data"), LAMBDA sd :
    Then(get(sd.st, "sample", sample_token), LAMBDA s :
         Ok(s.st, None))))

----------------------------------------------------------------------------
(* render_image *)

\* nuimages.utils.utils.mask_decode: the pixels of a run-length encoded mask.  The
\* runs are of 0s and 1s in turn, starting with 0s; pixel numbering starts at 1.
RECURSIVE DecodeRuns(_, _, _)
DecodeRuns(counts, i, start) ==
    IF i > Len(counts) THEN {}
    ELSE (IF i % 2 = 0 THEN start .. (start + counts[i] - 1) ELSE {})
         \cup DecodeRuns(counts, i + 1, start + counts[i])

mask_decode(mask) == DecodeRuns(mask, 1, 1)

\* nuimages.utils.utils.annotation_name: the category name, followed by the
\* attribute names when they are asked for.
annotation_name(attributes, category_name, with_attributes) ==
    IF with_attributes
    THEN << category_name >> \o [i \in DOMAIN attributes |-> attributes[i].name]
    ELSE << category_name >>

\* A selection in which an allow-list picks annotations of any sample_data.
select_anns_any_sample_data(table, sample_data_token, tokens) ==
    LET OfSampleData(o) == o.sample_data_token = sample_data_token
        Allowed(o) == o.token \in Val(tokens)
    IN  IF tokens # None THEN SelectSeq(table, Allowed) ELSE SelectSeq(table, OfSampleData)

\* Lines 377-379 and 394-396: the annotations of a table that belong to the
\* sample_data and, with an allow-list, are in it.
select_anns(table, sample_data_token, tokens) ==
    LET OfSampleData(o) == o.sample_data_token = sample_data_token
        Allowed(o) == o.token \in Val(tokens)
        anns == SelectSeq(table, OfSampleData)
    IN  IF tokens # None THEN SelectSeq(anns, Allowed) ELSE anns

\* What a render has done so far: the object's state, the draw calls issued on
\* the image, and the exception raised.
Drawn(st, draws, exc) == [st |-> st, draws |-> draws, exc |-> exc]

\* A surface loop that checks the mask only after drawing.
RECURSIVE draw_surfaces_unmasked(_, _, _, _)
draw_surfaces_unmasked(st, anns, i, draws) ==
    IF i > Len(anns) THEN Drawn(st, draws, NoExc)
    ELSE With(get(st, "category", anns[i].category_token), LAMBDA c :
         LET ann == anns[i]
         IN  IF c.exc # NoExc THEN Drawn(c.st, draws, c.exc)
             ELSE IF c.ret.name \notin DOMAIN color_map THEN Drawn(c.st, draws, KeyError(386))
             ELSE draw_surfaces_unmasked(c.st, anns, i + 1,
                    Append(draws, [op |-> "bitmap", layer |-> "surface", ann |-> ann.token,
                                   fill |-> color_map[c.ret.name],
                                   pixels |-> IF ann.mask = None THEN {}
                                              ELSE mask_decode(Val(ann.mask))])))

\* The loop of lines 382-391 from the annotation at position i on.
RECURSIVE draw_surfaces(_, _, _, _)
draw_surfaces(st, anns, i, draws) ==
    IF i > Len(anns) THEN Drawn(st, draws, NoExc)
    ELSE With(get(st, "category", anns[i].category_token), LAMBDA c :
         LET ann == anns[i]
         IN  IF c.exc # NoExc THEN Drawn(c.st, draws, c.exc)
             ELSE IF c.ret.name \notin DOMAIN color_map THEN Drawn(c.st, draws, KeyError(386))
             ELSE draw_surfaces(c.st, anns, i + 1,
                    IF ann.mask = None THEN draws
                    ELSE Append(draws, [op |-> "bitmap", layer |-> "surface",
                                        ann |-> ann.token,
                                        fill |-> color_map[c.ret.name],
                                        pixels |-> mask_decode(Val(ann.mask))])))

\* Line 406: [self.get('attribute', at) for at in attr_tokens] from position i on.
RECURSIVE get_attributes(_, _, _, _)
get_attributes(st, attr_tokens, i, attributes) ==
    IF i > Len(attr_tokens) THEN Ok(st, attributes)
    ELSE Then(get(st, "attribute", attr_tokens[i]), LAMBDA a :
              get_attributes(a.st, attr_tokens, i + 1, Append(attributes, a.ret)))

\* Lines 410-415: the rectangle, the label and the mask of an object annotation.
draw_object(ann, color, name) ==
    << [op |-> "rectangle", layer |-> "object", ann |-> ann.token,
        bbox |-> ann.bbox, outline |-> color],
       [op |-> "text", layer |-> "object", ann |-> ann.token,
        xy |-> << ann.bbox[1], ann.bbox[2] >>, text |-> name],
       [op |-> "bitmap", layer |-> "object", ann |-> ann.token,
        fill |-> color, pixels |-> mask_decode(Val(ann.mask))] >>

\* The loop of lines 399-415 from the annotation at position i on.
RECURSIVE draw_objects(_, _, _, _, _)
draw_objects(st, anns, i, draws, with_attributes) ==
    IF i > Len(anns) THEN Drawn(st, draws, NoExc)
    ELSE With(get(st, "category", anns[i].category_token), LAMBDA c :
         IF c.exc # NoExc THEN Drawn(c.st, draws, c.exc)
         ELSE IF c.ret.name \notin DOMAIN color_map THEN Drawn(c.st, draws, KeyError(403))
         ELSE With(get_attributes(c.st, anns[i].attribute_tokens, 1, << >>), LAMBDA a :
              LET ann == anns[i]
              IN  IF a.exc # NoExc THEN Drawn(a.st, draws, a.exc)
                  ELSE draw_objects(a.st, anns, i + 1,
                         IF ann.mask = None THEN draws
                         ELSE draws \o draw_object(ann, color_map[c.ret.name],
                                         annotation_name(a.ret, c.ret.name, with_attributes)),
                         with_attributes)))

Rendered(st, exc, opened, draws, path) ==
    [ st |-> st, exc |-> exc, opened |-> opened, draws |-> draws,
      ret |-> IF exc = NoExc THEN Some([path |-> path, draws |-> draws]) ELSE None ]

\* A render that has opened the image at path and ends as the drawing d did.
RenderedAs(d, path) == Rendered(d.st, d.exc, TRUE, d.draws, path)

\* A render that draws the object instances before the surfaces.
render_annotations_objects_first(st, a, sample_data) ==
    With(getattr(st, "object_ann"), LAMBDA o :
    IF o.exc # NoExc THEN Rendered(o.st, o.exc, TRUE, << >>, sample_data.filename)
    ELSE
    With(draw_objects(o.st, select_anns(o.ret, a.sample_data_token, a.object_tokens),
                      1, << >>, a.with_attributes), LAMBDA do :
    IF do.exc # NoExc THEN RenderedAs(do, sample_data.filename)
    ELSE
    With(getattr(do.st, "surface_ann"), LAMBDA s :
    IF s.exc # NoExc THEN Rendered(s.st, s.exc, TRUE, do.draws, sample_data.filename)
    ELSE
    RenderedAs(draw_surfaces(s.st,
                             select_anns(s.ret, a.sample_data_token, a.surface_tokens),
                             1, do.draws),
               sample_data.filename))))

\* The annotation part of render_image, lines 372-427: a holds the arguments.
render_annotations(st, a, sample_data) ==
    With(getattr(st, "surface_ann"), LAMBDA s :
    IF s.exc # NoExc THEN Rendered(s.st, s.exc, TRUE, << >>, sample_data.filename)
    ELSE
    With(draw_surfaces(s.st, select_anns(s.ret, a.sample_data_token, a.surface_tokens),
                       1, << >>), LAMBDA ds :
    IF ds.exc # NoExc THEN RenderedAs(ds, sample_data.filename)
    ELSE
    With(getattr(ds.st, "object_ann"), LAMBDA o :
    IF o.exc # NoExc THEN Rendered(o.st, o.exc, TRUE, ds.draws, sample_data.filename)
    ELSE
    RenderedAs(draw_objects(o.st,
                            select_anns(o.ret, a.sample_data_token, a.object_tokens),
                            1, ds.draws, a.with_attributes),
               sample_data.filename))))

\* A validation that lets annotations of a non-keyframe through.
validate_inputs_any_frame(sample_data, a) ==
    IF sample_data.fileformat # "jpg" THEN AssertionError(361)
    ELSE IF ~sample_data.is_key_frame /\ a.with_attributes THEN AssertionError(364)
    ELSE NoExc

\* A validation that turns every non-keyframe down, annotations asked for or not.
validate_inputs_keyframes_only(sample_data, a) ==
    IF sample_data.fileformat # "jpg" THEN AssertionError(361)
    ELSE IF ~sample_data.is_key_frame THEN AssertionError(363)
    ELSE NoExc

\* Lines 361-364: the assertions on the sample_data record.
validate_inputs(sample_data, a) ==
    IF sample_data.fileformat # "jpg" THEN AssertionError(361)
    ELSE IF ~sample_data.is_key_frame /\ a.with_annotations THEN AssertionError(363)
    ELSE IF ~sample_data.is_key_frame /\ a.with_attributes THEN AssertionError(364)
    ELSE NoExc

\* self.render_image(sample_data_token, with_annotations, with_attributes,
\* object_tokens, surface_tokens), lines 340-427.  The image file is taken to be
\* readable; the matplotlib display of lines 417-425 is left out.
render_image(st, a) ==
    With(get(st, "sample_data", a.sample_data_token), LAMBDA g :
    IF g.exc # NoExc THEN Rendered(g.st, g.exc, FALSE, << >>, None)
    ELSE
    With(validate_inputs(g.ret, a), LAMBDA invalid :
    IF invalid # NoExc THEN Rendered(g.st, invalid, FALSE, << >>, None)
    ELSE IF ~a.with_annotations
    THEN Rendered(g.st, NoExc, TRUE, << >>, g.ret.filename)
    ELSE render_annotations(g.st, a, g.ret)))

----------------------------------------------------------------------------
(* Calls *)

Call(op, args, r) ==
    [ op |-> op, args |-> args, exc |-> r.exc, ret |-> r.ret,
      opened |-> FALSE, draws |-> << >> ]

\* The instance attributes after a call that ended as r.
Becomes(r) ==
    /\ self_dict' = r.st.dict
    /\ token2ind' = r.st.token2ind
    /\ sample_to_key_frame_map' = r.st.kfmap
    /\ reads' = r.st.reads
    /\ scans' = r.st.scans
    /\ kf_scans' = r.st.kf_scans

\* A call of the method op with the arguments args that ended as r.
Returns(op, args, r) ==
    /\ Becomes(r)
    /\ last' = Call(op, args, r)

CanCall == phase = "ready" /\ nops < MaxOps

\* The callers of the store that share it without synchronization.
Threads == { "t1", "t2" }

\* A thread that is in no call: pc is the line of getind (or of load_table, or of
\* __getattr__) it is about to execute.
Idle == [ pc |-> "idle", table_name |-> "", token |-> "", saw |-> "", table |-> None,
          ind |-> 0, exc |-> NoExc, ret |-> None ]

Init ==
    /\ version \in Versions
    /\ missing \in MissingChoices
    /\ dir_exists \in BOOLEAN
    /\ phase = "new"
    /\ lazy = FALSE
    /\ self_dict = [t \in TableNames |-> None]
    /\ token2ind = [t \in TableNames |-> None]
    /\ sample_to_key_frame_map = None
    /\ reads = [t \in TableNames |-> 0]
    /\ scans = [t \in TableNames |-> 0]
    /\ kf_scans = 0
    /\ nops = 0
    /\ last = Call("none", << >>, Ok(Self, None))
    /\ threads = [th \in Threads |-> Idle]
    /\ overlap = FALSE

\* Lines 67-76: the tables of table_names from position i on, loaded in turn.
RECURSIVE LoadAllFrom(_, _)
LoadAllFrom(st, i) ==
    IF i > Len(table_names) THEN Ok(st, None)
    ELSE Then(__load_table__(st, table_names[i]), LAMBDA r :
              LoadAllFrom([r.st EXCEPT !.dict[table_names[i]] = Some(r.ret)], i + 1))

\* A constructor that loads every table whatever the laziness flag.
init_eager(st, is_lazy) ==
    IF ~dir_exists THEN Raise(st, AssertionError(53))
    ELSE With([st EXCEPT !.token2ind = [t \in TableNames |-> None]], LAMBDA st1 :
         Then(LoadAllFrom(st1, 1), LAMBDA r :
              Ok([r.st EXCEPT !.kfmap = None], None)))

\* A constructor without the assertion of line 53 on the versioned directory.
init_unchecked(st, is_lazy) ==
    With([st EXCEPT !.token2ind = [t \in TableNames |-> None]], LAMBDA st1 :
    Then(IF is_lazy THEN Ok(st1, None) ELSE LoadAllFrom(st1, 1), LAMBDA r :
         Ok([r.st EXCEPT !.kfmap = None], None)))

\* NuImages.__init__, lines 33-82.
init(st, is_lazy) ==
    IF ~dir_exists THEN Raise(st, AssertionError(53))
    ELSE With([st EXCEPT !.token2ind = [t \in TableNames |-> None]], LAMBDA st1 :
         Then(IF is_lazy THEN Ok(st1, None) ELSE LoadAllFrom(st1, 1), LAMBDA r :
              Ok([r.st EXCEPT !.kfmap = None], None)))

Construct ==
    /\ phase = "new"
    /\ \E is_lazy \in BOOLEAN :
         /\ lazy' = is_lazy
         /\ Returns("__init__", << is_lazy >>, init(Self, is_lazy))
         /\ phase' = IF last'.exc = NoExc THEN "ready" ELSE "failed"
    /\ UNCHANGED << envVars, nops, threads, overlap >>

LoadTable ==
    /\ CanCall
    /\ \E table_name \in TableNames \cup {UnknownTable} :
         Returns("load_table", << table_name >>, load_table(Self, table_name))
    /\ nops' = nops + 1
    /\ UNCHANGED << envVars, phase, lazy, threads, overlap >>

\* The tokens a call on a table is tried with: those of its first and of its last
\* record that has one, and a token no record carries.
TokenArgs(table_name) ==
    IF table_name \notin TableNames THEN {AbsentToken}
    ELSE LET table == files(table_name)
             with_token == { i \in DOMAIN table : "token" \in DOMAIN table[i] }
             first == CHOOSE i \in with_token : \A j \in with_token : i <= j
             final == CHOOSE i \in with_token : \A j \in with_token : j <= i
         IN  { table[first].token, table[final].token, AbsentToken }

Get ==
    /\ CanCall
    /\ \E table_name \in TableNames \cup {UnknownTable} :
       \E token \in TokenArgs(table_name) :
         Returns("get", << table_name, token >>, get(Self, table_name, token))
    /\ nops' = nops + 1
    /\ UNCHANGED << envVars, phase, lazy, threads, overlap >>

GetInd ==
    /\ CanCall
    /\ \E table_name \in TableNames \cup {UnknownTable} :
       \E token \in TokenArgs(table_name) :
         Returns("getind", << table_name, token >>, getind(Self, table_name, token))
    /\ nops' = nops + 1
    /\ UNCHANGED << envVars, phase, lazy, threads, overlap >>

\* The modality names sample_to_key_frame is called with.
Modalities == { "camera", "lidar" }

SampleToKeyFrame ==
    /\ CanCall
    /\ \E sample_token \in TokenArgs("sample") : \E modality \in Modalities :
         Returns("sample_to_key_frame", << sample_token, modality >>,
                 sample_to_key_frame(Self, sample_token, modality))
    /\ nops' = nops + 1
    /\ UNCHANGED << envVars, phase, lazy, threads, overlap >>

ListAttributes ==
    /\ CanCall
    /\ Returns("list_attributes", << >>, list_attributes(Self))
    /\ nops' = nops + 1
    /\ UNCHANGED << envVars, phase, lazy, threads, overlap >>

ListCameras ==
    /\ CanCall
    /\ Returns("list_cameras", << >>, list_cameras(Self))
    /\ nops' = nops + 1
    /\ UNCHANGED << envVars, phase, lazy, threads, overlap >>

ListCategories ==
    /\ CanCall
    /\ \E sample_tokens \in { None, Some({"s1"}) } :
         Returns("list_categories", << sample_tokens >>, list_categories(Self, sample_tokens))
    /\ nops' = nops + 1
    /\ UNCHANGED << envVars, phase, lazy, threads, overlap >>

ListLogs ==
    /\ CanCall
    /\ Returns("list_logs", << >>, list_logs(Self))
    /\ nops' = nops + 1
    /\ UNCHANGED << envVars, phase, lazy, threads, overlap >>

ListSampleContent ==
    /\ CanCall
    /\ \E sample_token \in TokenArgs("sample") :
         Returns("list_sample_content", << sample_token >>, list_sample_content(Self, sample_token))
    /\ nops' = nops + 1
    /\ UNCHANGED << envVars, phase, lazy, threads, overlap >>

\* The arguments of a render without allow-lists.
RenderArgs ==
    [ sample_data_token : TokensOf(files("sample_data")) \cup {AbsentToken},
      with_annotations : BOOLEAN,
      with_attributes : BOOLEAN,
      object_tokens : {None},
      surface_tokens : {None} ]

\* The allow-lists a render is called with: none, or a list of annotation tokens.
AllowLists(table_name) == {None} \cup { Some(S) : S \in SUBSET TokensOf(files(table_name)) }

\* The arguments of a render of a keyframe with an allow-list for one kind of
\* annotation, or for both kinds the lists of one or no token.
FilteredRenderArgs ==
    { a \in [ sample_data_token : {"sd1"},
              with_annotations : {TRUE},
              with_attributes : BOOLEAN,
              object_tokens : AllowLists("object_ann"),
              surface_tokens : AllowLists("surface_ann") ] :
        \/ a.object_tokens = None
        \/ a.surface_tokens = None
        \/ /\ Cardinality(Val(a.object_tokens)) <= 1
           /\ Cardinality(Val(a.surface_tokens)) <= 1 }

\* A render_image(a) that ended as r.
Renders(a, r) ==
    /\ Becomes(r)
    /\ last' = [ op |-> "render_image", args |-> a, exc |-> r.exc, ret |-> r.ret,
                 opened |-> r.opened, draws |-> r.draws ]

\* The arguments of a render without annotations: any record of sample_data, with
\* or without attribute text, and allow-lists that are absent, empty or hold the
\* first annotation of the table.
PlainRenderArgs ==
    [ sample_data_token : TokensOf(files("sample_data")),
      with_annotations : {FALSE},
      with_attributes : BOOLEAN,
      object_tokens : { None, Some({}), Some({"ob1"}) },
      surface_tokens : { None, Some({"su1"}) } ]

Render(a) ==
    /\ CanCall
    /\ Renders(a, render_image(Self, a))
    /\ nops' = nops + 1
    /\ UNCHANGED << envVars, phase, lazy, threads, overlap >>

RenderImage == \E a \in RenderArgs : Render(a)

RenderImageFiltered == \E a \in FilteredRenderArgs : Render(a)

RenderImagePlain == \E a \in PlainRenderArgs : Render(a)

Next ==
    \/ Construct
    \/ LoadTable
    \/ Get
    \/ GetInd
    \/ SampleToKeyFrame
    \/ ListAttributes
    \/ ListCameras
    \/ ListCategories
    \/ ListLogs
    \/ ListSampleContent
    \/ RenderImage

Spec == Init /\ [][Next]_vars

\* The store under renders with allow-lists.
NextRender ==
    \/ Construct
    \/ RenderImage
    \/ RenderImageFiltered
    \/ RenderImagePlain

SpecRender == Init /\ [][NextRender]_vars

----------------------------------------------------------------------------
(* getind called from two threads.  A thread executes one line of getind, of  *)
(* __getattr__ or of load_table at a time; every line reads and writes the    *)
(* shared instance attributes as it finds them.                               *)

\* The tables the threads look tokens up in.
ThreadTables == { "category", "sample_data" }

Busy(th) == threads[th].pc \notin { "idle", "done" }

Goto(th, pc) == threads' = [threads EXCEPT ![th].pc = pc]

Finish(th, exc, ret) ==
    threads' = [threads EXCEPT ![th].pc = "done", ![th].exc = exc, ![th].ret = ret]

\* How much of a table's tokens a dict of self._token2ind holds.
Populated(table_name, index) ==
    IF index = None THEN "absent"
    ELSE IF table_name \notin missing
            /\ TokensOf(files(table_name)) \subseteq DOMAIN Val(index) THEN "full"
    ELSE "partial"

\* A thread calls getind(table_name, token).
ThreadCall(th) ==
    /\ phase = "ready"
    /\ threads[th].pc = "idle"
    /\ \E table_name \in ThreadTables : \E token \in TokenArgs(table_name) :
         threads' = [threads EXCEPT ![th] = [Idle EXCEPT !.pc = "115",
                                                       !.table_name = table_name,
                                                       !.token = token]]
    /\ overlap' = (overlap \/ \E other \in Threads \ {th} : Busy(other))
    /\ UNCHANGED << envVars, phase, lazy, storeVars, ghostVars, nops, last >>

\* Line 115: if self._token2ind[table_name] is None.
Thread115(th) ==
    /\ threads[th].pc = "115"
    /\ LET index == token2ind[threads[th].table_name]
       IN  threads' = [threads EXCEPT
                         ![th].pc = IF index = None THEN "116" ELSE "120",
                         ![th].saw = Populated(threads[th].table_name, index)]
    /\ UNCHANGED << envVars, phase, lazy, storeVars, ghostVars, nops, last, overlap >>

\* Line 116: self._token2ind[table_name] = dict().
Thread116(th) ==
    /\ threads[th].pc = "116"
    /\ token2ind' = [token2ind EXCEPT ![threads[th].table_name] = Some(EmptyDict)]
    /\ Goto(th, "117")
    /\ UNCHANGED << envVars, phase, lazy, self_dict, sample_to_key_frame_map, ghostVars,
                    nops, last, overlap >>

\* Line 117, getattr(self, table_name): the table when it is an instance
\* attribute, and __getattr__ (which calls load_table, line 91) when it is not.
Thread117(th) ==
    /\ threads[th].pc = "117"
    /\ LET table_name == threads[th].table_name
       IN  IF self_dict[table_name] # None
           THEN /\ threads' = [threads EXCEPT ![th].pc = "118",
                                              ![th].table = self_dict[table_name],
                                              ![th].ind = 0]
                /\ scans' = [scans EXCEPT ![table_name] = @ + 1]
           ELSE /\ Goto(th, "134")
                /\ UNCHANGED scans
    /\ UNCHANGED << envVars, phase, lazy, storeVars, reads, kf_scans, nops, last, overlap >>

\* Line 134: if table_name in self.__dict__.keys(): return.
Thread134(th) ==
    /\ threads[th].pc = "134"
    /\ Goto(th, IF self_dict[threads[th].table_name] # None THEN "92" ELSE "137")
    /\ UNCHANGED << envVars, phase, lazy, storeVars, ghostVars, nops, last, overlap >>

\* Line 137: table = self.__load_table__(table_name).
Thread137(th) ==
    /\ threads[th].pc = "137"
    /\ LET r == __load_table__(Self, threads[th].table_name)
       IN  /\ reads' = r.st.reads
           /\ IF r.exc # NoExc THEN Finish(th, r.exc, None)
              ELSE threads' = [threads EXCEPT ![th].pc = "138", ![th].table = Some(r.ret)]
    /\ UNCHANGED << envVars, phase, lazy, storeVars, scans, kf_scans, nops, last, overlap >>

\* Line 138: self.__setattr__(table_name, table).
Thread138(th) ==
    /\ threads[th].pc = "138"
    /\ self_dict' = [self_dict EXCEPT ![threads[th].table_name] = threads[th].table]
    /\ Goto(th, "92")
    /\ UNCHANGED << envVars, phase, lazy, token2ind, sample_to_key_frame_map, ghostVars,
                    nops, last, overlap >>

\* Line 92: return self.__getattribute__(attr_name), the iterable of line 117.
Thread92(th) ==
    /\ threads[th].pc = "92"
    /\ threads' = [threads EXCEPT ![th].pc = "118",
                                  ![th].table = self_dict[threads[th].table_name],
                                  ![th].ind = 0]
    /\ scans' = [scans EXCEPT ![threads[th].table_name] = @ + 1]
    /\ UNCHANGED << envVars, phase, lazy, storeVars, reads, kf_scans, nops, last, overlap >>

\* Lines 117-118: the next (ind, member) of the enumeration, stored in the dict
\* that self._token2ind[table_name] is at that time.
Thread118(th) ==
    /\ threads[th].pc = "118"
    /\ LET t == threads[th]
           table == Val(t.table)
       IN  IF t.ind >= Len(table)
           THEN /\ Goto(th, "120")
                /\ UNCHANGED token2ind
           ELSE LET e == index_member(Val(token2ind[t.table_name]), table[t.ind + 1], t.ind)
                IN  /\ token2ind' = [token2ind EXCEPT ![t.table_name] = Some(e.d)]
                    /\ IF e.exc # NoExc THEN Finish(th, e.exc, None)
                       ELSE threads' = [threads EXCEPT ![th].ind = @ + 1]
    /\ UNCHANGED << envVars, phase, lazy, self_dict, sample_to_key_frame_map, ghostVars,
                    nops, last, overlap >>

\* Line 120: return self._token2ind[table_name][token].
Thread120(th) ==
    /\ threads[th].pc = "120"
    /\ LET d == Val(token2ind[threads[th].table_name])
           token == threads[th].token
       IN  IF token \in DOMAIN d THEN Finish(th, NoExc, Some(d[token]))
           ELSE Finish(th, KeyError(120), None)
    /\ UNCHANGED << envVars, phase, lazy, storeVars, ghostVars, nops, last, overlap >>

NextThreads ==
    \/ Construct
    \/ \E th \in Threads : ThreadCall(th)
    \/ \E th \in Threads : Thread115(th)
    \/ \E th \in Threads : Thread116(th)
    \/ \E th \in Threads : Thread117(th)
    \/ \E th \in Threads : Thread134(th)
    \/ \E th \in Threads : Thread137(th)
    \/ \E th \in Threads : Thread138(th)
    \/ \E th \in Threads : Thread92(th)
    \/ \E th \in Threads : Thread118(th)
    \/ \E th \in Threads : Thread120(th)

SpecThreads == Init /\ [][NextThreads]_vars

----------------------------------------------------------------------------
(* Properties *)

\* A step that is a call of the method op on the constructed store.
IsCall(op) == nops' = nops + 1 /\ last'.op = op

\* Every record of the table has a token, and no two records share one.
UniqueTokens(table) ==
    /\ \A i \in DOMAIN table : "token" \in DOMAIN table[i]
    /\ \A i, j \in DOMAIN table : table[i].token = table[j].token => i = j

\* C1 (index correctness): after get(table_name, token) on a recognized table
\* that is loaded and whose records carry unique tokens, whatever calls came
\* before: if a record of the table carries the token, the call returned the
\* record stored at that record's position, equal to it; if none does, the call
\* raised the KeyError of the index lookup and returned nothing.
C1_IndexCorrectness ==
    (/\ last.op = "get"
     /\ last.args[1] \in TableNames
     /\ self_dict[last.args[1]] # None
     /\ UniqueTokens(Val(self_dict[last.args[1]])))
    => LET table == Val(self_dict[last.args[1]])
           token == last.args[2]
       IN  /\ \A i \in DOMAIN table :
                table[i].token = token
                => last.exc = NoExc /\ last.ret = table[i] /\ last.ret.token = token
           /\ token \notin TokensOf(table)
                => last.exc = KeyError(120) /\ last.ret = None

\* C1 witness: the second call on a store is a get that returned the last record
\* of a three-record table with unique tokens.
C1_Witness ==
    /\ last.op = "get"
    /\ nops = 2
    /\ last.exc = NoExc
    /\ last.args[1] = "sample_data"
    /\ UniqueTokens(Val(self_dict["sample_data"]))
    /\ last.ret = Val(self_dict["sample_data"])[3]

\* C2 (idempotent load): load_table on a table that is resident changes nothing
\* of the store and reads no file, and in every reachable state each table's file
\* has been read at most once.
C2_IdempotentLoad ==
    /\ [][ (IsCall("load_table") /\ last'.args[1] \in TableNames
            /\ self_dict[last'.args[1]] # None)
           => (UNCHANGED << storeVars, ghostVars >> /\ last'.exc = NoExc) ]_vars
    /\ [](\A t \in TableNames : reads[t] <= 1)

\* C2 witness: load_table was called on a table that the eager constructor had
\* loaded, and the table's file has been read once.
C2_Witness ==
    /\ phase = "ready"
    /\ ~lazy
    /\ last.op = "load_table"
    /\ last.args[1] \in TableNames
    /\ last.exc = NoExc
    /\ reads[last.args[1]] = 1

\* The tables a call may reference.
References(call) ==
    CASE call.op \in { "load_table", "get", "getind" } -> { call.args[1] } \cap TableNames
      [] call.op = "sample_to_key_frame" -> { "sample_data" }
      [] call.op = "list_attributes" -> { "attribute", "object_ann" }
      [] call.op = "list_cameras" -> { "sample", "sample_data", "calibrated_sensor", "sensor" }
      [] call.op = "list_categories" ->
           { "sample", "object_ann", "surface_ann", "category", "sample_data" }
      [] call.op = "list_logs" -> { "sample", "log" }
      [] call.op = "list_sample_content" -> { "sample_data", "sample" }
      [] call.op = "render_image" ->
           { "sample_data", "surface_ann", "object_ann", "category", "attribute" }
      [] OTHER -> {}

\* C3 (lazy materialization): right after a lazy construction every table is
\* absent; in a lazy store a table becomes present only in a call that references
\* it; after load_table, get, getind on a table whose file exists (and after
\* sample_to_key_frame, for sample_data) the table is present; and a present
\* table is never unloaded or replaced.
C3_LazyMaterialization ==
    /\ []((last.op = "__init__" /\ phase = "ready" /\ lazy)
          => \A t \in TableNames : self_dict[t] = None)
    /\ [][ lazy' => \A t \in TableNames :
             (self_dict[t] = None /\ self_dict'[t] # None) => t \in References(last') ]_vars
    /\ []((/\ phase = "ready"
           /\ last.op \in { "load_table", "get", "getind", "sample_to_key_frame" })
          => \A t \in References(last) \ missing : self_dict[t] = Some(files(t)))
    /\ [][ \A t \in TableNames : self_dict[t] # None => self_dict'[t] = self_dict[t] ]_vars

\* C3 witness: in a lazy store the second call was a get on a table whose file
\* exists; that table is present and another table is still absent.
C3_Witness ==
    /\ lazy
    /\ nops = 2
    /\ last.op = "get"
    /\ last.args[1] \in TableNames \ missing
    /\ self_dict[last.args[1]] # None
    /\ \E t \in TableNames \ missing : self_dict[t] = None

\* C4 (keyframe mapping consistency): after sample_to_key_frame(sample_token,
\* modality), if a keyframe record of sample_data references the sample and has
\* the file format of the modality (jpg for camera, bin for lidar), the call
\* returned that record's token.
C4_KeyframeMapping ==
    (last.op = "sample_to_key_frame" /\ "sample_data" \notin missing)
    => LET table == files("sample_data")
       IN  \A i \in DOMAIN table :
             (/\ table[i].is_key_frame
              /\ table[i].sample_token = last.args[1]
              /\ \/ table[i].fileformat = "jpg" /\ last.args[2] = "camera"
                 \/ table[i].fileformat = "bin" /\ last.args[2] = "lidar")
             => last.exc = NoExc /\ last.ret = table[i].token

\* C5 (rendering precondition): render_image with with_annotations = true on a
\* sample_data record that is a point cloud (bin), or a jpg that is no keyframe,
\* raised the assertion of line 361 or 363, before the image was opened and
\* before any draw call, and returned no image.
C5_RenderPrecondition ==
    (/\ last.op = "render_image"
     /\ last.args.with_annotations
     /\ "sample_data" \notin missing
     /\ UniqueTokens(files("sample_data")))
    => LET table == files("sample_data")
       IN  \A i \in DOMAIN table :
             (/\ table[i].token = last.args.sample_data_token
              /\ \/ table[i].fileformat = "bin"
                 \/ table[i].fileformat = "jpg" /\ ~table[i].is_key_frame)
             => /\ last.exc \in { AssertionError(361), AssertionError(363) }
                /\ last.exc = (IF table[i].fileformat = "bin" THEN AssertionError(361)
                               ELSE AssertionError(363))
                /\ ~last.opened
                /\ last.draws = << >>
                /\ last.ret = None

\* C5 witness: a render with annotations of a jpg record that is no keyframe
\* failed.
C5_Witness ==
    /\ last.op = "render_image"
    /\ last.args.with_annotations
    /\ "sample_data" \notin missing
    /\ \E i \in DOMAIN files("sample_data") :
         /\ files("sample_data")[i].token = last.args.sample_data_token
         /\ files("sample_data")[i].fileformat = "jpg"
         /\ ~files("sample_data")[i].is_key_frame
    /\ last.exc # NoExc

\* The position in a table's file of the record that carries a token.
PositionOf(table_name, token) ==
    CHOOSE i \in DOMAIN files(table_name) : files(table_name)[i].token = token

TableOf(layer) == IF layer = "surface" THEN "surface_ann" ELSE "object_ann"

\* The draw call that painted a pixel last, if any did.
TopFill(draws, pixel) ==
    LET fills == { i \in DOMAIN draws : draws[i].op = "bitmap" /\ pixel \in draws[i].pixels }
    IN  IF fills = {} THEN None
        ELSE Some(draws[CHOOSE i \in fills : \A j \in fills : j <= i])

\* C6 (draw order): in the draw calls of a render, every call for a surface
\* annotation comes before every call for an object annotation; the annotations
\* of one kind are drawn in the order of their table; and a pixel that a surface
\* fill and an object fill both cover was painted last by an object fill.
C6_DrawOrder ==
    last.op = "render_image"
    => LET d == last.draws
       IN  /\ \A i, j \in DOMAIN d :
                 (i < j /\ d[j].layer = "surface") => d[i].layer = "surface"
           /\ \A i, j \in DOMAIN d :
                 (i < j /\ d[i].layer = d[j].layer)
                 => PositionOf(TableOf(d[i].layer), d[i].ann)
                      <= PositionOf(TableOf(d[j].layer), d[j].ann)
           /\ \A p \in ImagePixels :
                 (/\ \E i \in DOMAIN d : d[i].layer = "surface" /\ d[i].op = "bitmap"
                                          /\ p \in d[i].pixels
                  /\ \E i \in DOMAIN d : d[i].layer = "object" /\ d[i].op = "bitmap"
                                          /\ p \in d[i].pixels)
                 => Val(TopFill(d, p)).layer = "object"

\* C6 witness: a render returned an image on which two surfaces and two objects
\* were drawn, and a pixel is covered by a surface fill and by an object fill.
C6_Witness ==
    /\ last.op = "render_image"
    /\ last.exc = NoExc
    /\ Cardinality({ last.draws[i].ann : i \in DOMAIN last.draws }) >= 4
    /\ \E p \in ImagePixels : \E i, j \in DOMAIN last.draws :
         /\ last.draws[i].layer = "surface" /\ p \in last.draws[i].pixels
         /\ last.draws[j].op = "bitmap" /\ last.draws[j].layer = "object"
         /\ p \in last.draws[j].pixels

\* The annotations of a table whose mask is absent.
Maskless(table_name) ==
    { files(table_name)[i].token :
        i \in { j \in DOMAIN files(table_name) : files(table_name)[j].mask = None } }

\* The arguments a with the token x left out of the allow-lists.
Without(a, x) ==
    [a EXCEPT !.object_tokens = IF @ = None THEN @ ELSE Some(Val(@) \ {x}),
              !.surface_tokens = IF @ = None THEN @ ELSE Some(Val(@) \ {x})]

InAllowList(a, x) ==
    \/ a.object_tokens # None /\ x \in Val(a.object_tokens) /\ x \in Maskless("object_ann")
    \/ a.surface_tokens # None /\ x \in Val(a.surface_tokens) /\ x \in Maskless("surface_ann")

\* C7 as claimed (mask gating): a render whose allow-list holds an annotation
\* with an absent mask issues no draw call for it, and its draw calls and its
\* outcome are those of the same render, from the same state, with the annotation
\* left out of the allow-list.
C7_MaskGating_Claimed ==
    [][ IsCall("render_image") =>
          \A x \in Maskless("object_ann") \cup Maskless("surface_ann") :
            InAllowList(last'.args, x) =>
              LET other == render_image(Self, Without(last'.args, x))
              IN  /\ \A i \in DOMAIN last'.draws : last'.draws[i].ann # x
                  /\ other.draws = last'.draws
                  /\ other.exc = last'.exc
                  /\ other.ret = last'.ret ]_vars

\* C7 as amended: a render whose allow-list holds an annotation with an absent
\* mask issues no draw call for it; and when the render succeeds, the same
\* render with the annotation left out of the allow-list succeeds too, with the
\* same draw calls and the same image.
C7_MaskGating ==
    [][ IsCall("render_image") =>
          \A x \in Maskless("object_ann") \cup Maskless("surface_ann") :
            InAllowList(last'.args, x) =>
              LET other == render_image(Self, Without(last'.args, x))
              IN  /\ \A i \in DOMAIN last'.draws : last'.draws[i].ann # x
                  /\ last'.exc = NoExc
                     => /\ other.exc = NoExc
                        /\ other.draws = last'.draws
                        /\ other.ret = last'.ret ]_vars

\* C7 witness: a render with the maskless surface su2 in its allow-list returned
\* an image with draw calls on it.
C7_Witness ==
    /\ last.op = "render_image"
    /\ last.exc = NoExc
    /\ last.args.surface_tokens # None
    /\ "su2" \in Val(last.args.surface_tokens)
    /\ "su2" \in Maskless("surface_ann")
    /\ last.draws # << >>

\* C8 as claimed: a call of render_image leaves the resident tables, the reverse
\* indices and the keyframe mapping as they were.
C8_RenderFrame_Claimed ==
    [][ IsCall("render_image") => UNCHANGED storeVars ]_vars

\* C8 as amended: a call of render_image changes the store only by making an
\* absent table among sample_data, surface_ann, object_ann, category, attribute
\* resident (with the records of its file) and an absent reverse index among
\* those of sample_data, category, attribute present; a table or an index that
\* was present, every other table and index, and the keyframe mapping are as
\* they were.
C8_RenderFrame ==
    [][ IsCall("render_image") =>
          /\ \A t \in TableNames :
               /\ self_dict[t] # None => self_dict'[t] = self_dict[t]
               /\ self_dict'[t] # self_dict[t]
                  => /\ t \in { "sample_data", "surface_ann", "object_ann", "category",
                                "attribute" }
                     /\ self_dict'[t] = Some(files(t))
               /\ token2ind[t] # None => token2ind'[t] = token2ind[t]
               /\ token2ind'[t] # token2ind[t]
                  => t \in { "sample_data", "category", "attribute" }
          /\ sample_to_key_frame_map' = sample_to_key_frame_map ]_vars

\* C8 witness: the first call on a lazy store was a render that returned an
\* image with annotations, and the tables it read are resident.
C8_Witness ==
    /\ lazy
    /\ nops = 1
    /\ last.op = "render_image"
    /\ last.exc = NoExc
    /\ last.draws # << >>
    /\ self_dict["surface_ann"] # None
    /\ token2ind["category"] # None

\* A thread's getind ended with the KeyError of line 120 for a token that a
\* record of the table carries, the table's file being there and its tokens unique.
FailedOnCarriedToken(th) ==
    /\ threads[th].pc = "done"
    /\ threads[th].exc = KeyError(120)
    /\ threads[th].table_name \notin missing
    /\ UniqueTokens(files(threads[th].table_name))
    /\ threads[th].token \in TokensOf(files(threads[th].table_name))

\* C9 (concurrent first access): a getind call fails with a KeyError for a token
\* that a record of the table carries only if a call began while another call
\* was under way; with the calls one after the other it does not happen.  That it
\* does happen with overlapping calls is the witness.
C9_SerializedIsSafe ==
    \A th \in Threads : FailedOnCarriedToken(th) => overlap

\* C9 witness: a thread found the index of the table present but not yet fully
\* populated at line 115, and its call failed with a KeyError for a token that a
\* record of the table carries.
C9_Witness ==
    \E th \in Threads : FailedOnCarriedToken(th) /\ threads[th].saw = "partial"

\* The index that one scan of a whole table builds: every token of the table, each
\* with the position of a record that carries it.
IsFullIndex(d, table) ==
    /\ \A i \in DOMAIN table : "token" \in DOMAIN table[i]
    /\ DOMAIN d = TokensOf(table)
    /\ \A k \in DOMAIN d : d[k] + 1 \in DOMAIN table /\ table[d[k] + 1].token = k

\* C10 (monotonic index): for a table whose records all carry a token, the
\* reverse index goes from absent to present only by one full scan of the
\* resident table, which leaves it holding every token of the table; an index
\* that is present is never reset or changed, and its table is not scanned again.
C10_MonotonicIndex ==
    [][ \A t \in TableNames :
          (\A i \in DOMAIN files(t) : "token" \in DOMAIN files(t)[i])
          => /\ token2ind[t] # None
                => token2ind'[t] = token2ind[t] /\ scans'[t] = scans[t]
             /\ (token2ind[t] = None /\ token2ind'[t] # None)
                => /\ scans'[t] = 1
                   /\ self_dict'[t] # None
                   /\ IsFullIndex(Val(token2ind'[t]), Val(self_dict'[t])) ]_vars

\* C11 (construction): right after the constructor ran: if the versioned
\* directory does not exist it failed with the assertion of line 53, whatever the
\* laziness flag; with laziness off and the directory there, it either failed with
\* the assertion of line 149 because a table file is missing, or it succeeded
\* with all ten tables resident (each holding the records of its file) and every
\* reverse index absent; with laziness on, no table file was read.
C11_Construction ==
    last.op = "__init__"
    => /\ ~dir_exists => last.exc = AssertionError(53) /\ phase = "failed"
       /\ (dir_exists /\ ~last.args[1])
          => \/ /\ missing # {}
                /\ last.exc = AssertionError(149)
                /\ phase = "failed"
             \/ /\ missing = {}
                /\ last.exc = NoExc
                /\ phase = "ready"
                /\ \A t \in TableNames : self_dict[t] = Some(files(t)) /\ token2ind[t] = None
       /\ last.args[1] => \A t \in TableNames : reads[t] = 0 /\ self_dict[t] = None
       /\ (dir_exists /\ last.args[1]) => last.exc = NoExc /\ phase = "ready"

\* C11 witness: an eager constructor found the directory and every table file,
\* and ended with the ten tables resident, each read once.
C11_Witness ==
    /\ last.op = "__init__"
    /\ ~last.args[1]
    /\ dir_exists
    /\ phase = "ready"
    /\ \A t \in TableNames : self_dict[t] # None /\ reads[t] = 1 /\ token2ind[t] = None

\* The record of sample_data that a render's sample_data_token names is a camera
\* image: the table's file is there and the record has the file format jpg.
RendersCamera(call, i) ==
    /\ call.op = "render_image"
    /\ "sample_data" \notin missing
    /\ i \in DOMAIN files("sample_data")
    /\ files("sample_data")[i].token = call.args.sample_data_token
    /\ files("sample_data")[i].fileformat = "jpg"

\* The outcome of a render that returned the image at the record's path with no
\* draw call on it.
BaseImage(call, i) ==
    /\ call.exc = NoExc
    /\ call.opened
    /\ call.draws = << >>
    /\ call.ret = Some([path |-> files("sample_data")[i].filename, draws |-> << >>])

\* C12 as claimed: render_image without annotations on a jpg record of
\* sample_data, keyframe or not, with or without attribute text and whatever the
\* allow-lists, returned the base image with no draw call on it.
C12_PlainRender_Claimed ==
    \A i \in DOMAIN files("sample_data") :
      (RendersCamera(last, i) /\ ~last.args.with_annotations) => BaseImage(last, i)

\* C12 as amended: render_image without annotations on a jpg record of
\* sample_data returned the base image with no draw call on it, whatever the
\* allow-lists, if the record is a keyframe or attribute text was not asked for;
\* on a record that is no keyframe with attribute text asked for, it raised the
\* assertion of line 364 before the image was opened and returned nothing.
C12_PlainRender ==
    \A i \in DOMAIN files("sample_data") :
      (RendersCamera(last, i) /\ ~last.args.with_annotations)
      => IF files("sample_data")[i].is_key_frame \/ ~last.args.with_attributes
         THEN BaseImage(last, i)
         ELSE /\ last.exc = AssertionError(364)
              /\ ~last.opened
              /\ last.draws = << >>
              /\ last.ret = None

\* C12 witness: a render without annotations and without attribute text, with
\* both allow-lists given, of a jpg record that is no keyframe returned the base
\* image.
C12_Witness ==
    \E i \in DOMAIN files("sample_data") :
      /\ RendersCamera(last, i)
      /\ ~files("sample_data")[i].is_key_frame
      /\ ~last.args.with_annotations
      /\ ~last.args.with_attributes
      /\ last.args.object_tokens # None
      /\ last.args.surface_tokens # None
      /\ BaseImage(last, i)

\* C13 (the two failures of get): get with a name that is none of the ten table
\* names raised the assertion of line 103 and returned nothing, and the call
\* loaded no table, read no file, built no index and scanned nothing; get on a
\* recognized table whose file is there, with a token that no record of the table
\* carries, raised a KeyError (that of the lookup of line 120 when every record
\* of the table has a token), which is not the error of the unknown table.
C13_GetFailures ==
    /\ []((last.op = "get" /\ last.args[1] \notin TableNames)
          => last.exc = AssertionError(103) /\ last.ret = None)
    /\ [][ (IsCall("get") /\ last'.args[1] \notin TableNames)
           => UNCHANGED << storeVars, ghostVars >> ]_vars
    /\ []((/\ last.op = "get"
           /\ last.args[1] \in TableNames \ missing
           /\ last.args[2] \notin TokensOf(files(last.args[1])))
          => /\ last.exc.type = "KeyError"
             /\ last.exc.type # AssertionError(103).type
             /\ last.ret = None
             /\ (\A i \in DOMAIN files(last.args[1]) : "token" \in DOMAIN files(last.args[1])[i])
                => last.exc = KeyError(120))

\* C13 witness: the second call on a lazy store that holds a resident table and
\* its index was a get on an unrecognized table name, and it raised the assertion
\* of line 103.
C13_Witness ==
    /\ lazy
    /\ nops = 2
    /\ last.op = "get"
    /\ last.args[1] \notin TableNames
    /\ last.exc = AssertionError(103)
    /\ \E t \in TableNames : self_dict[t] # None /\ token2ind[t] # None
    /\ \E t \in TableNames : self_dict[t] = None

\* The file format of the sample_data records of a modality.
FormatOf(modality) == IF modality = "camera" THEN "jpg" ELSE "bin"

\* The positions of the keyframe records of sample_data that reference a sample
\* and are of a modality.
KeyFramesOf(sample_token, modality) ==
    { i \in DOMAIN files("sample_data") :
        /\ files("sample_data")[i].is_key_frame
        /\ files("sample_data")[i].sample_token = sample_token
        /\ files("sample_data")[i].fileformat = FormatOf(modality) }

\* C14 (no keyframe): sample_to_key_frame(sample_token, modality) on a store
\* whose sample_data file is there and holds no keyframe record of the modality
\* that references the sample raised a KeyError and returned no token.
C14_NoKeyFrame ==
    (/\ last.op = "sample_to_key_frame"
     /\ "sample_data" \notin missing
     /\ last.args[2] \in Modalities
     /\ KeyFramesOf(last.args[1], last.args[2]) = {})
    => /\ last.exc.type = "KeyError"
       /\ last.exc.line \in { 331, 336 }
       /\ last.ret = None

\* C14 witness: the mapping was built, and the lidar keyframe of a sample of the
\* sample table that has none was asked for: the lookup of line 336 raised.
C14_Witness ==
    /\ last.op = "sample_to_key_frame"
    /\ last.args[2] = "lidar"
    /\ last.args[1] \in TokensOf(files("sample"))
    /\ KeyFramesOf(last.args[1], "lidar") = {}
    /\ sample_to_key_frame_map # None
    /\ last.exc = KeyError(336)
    /\ last.ret = None

\* C15 (keyframe mapping built once): on a store whose sample_data file is
\* there, the call of sample_to_key_frame that finds no mapping scans sample_data
\* once and stores the mapping, whatever its outcome; a call that finds the
\* mapping neither scans sample_data nor changes the mapping; no other call
\* touches the mapping; and sample_data is scanned for it at most once.
C15_KeyFrameMapOnce ==
    [][ "sample_data" \notin missing =>
          /\ (IsCall("sample_to_key_frame") /\ sample_to_key_frame_map = None)
             => /\ kf_scans' = kf_scans + 1
                /\ sample_to_key_frame_map' # None
          /\ sample_to_key_frame_map # None
             => /\ sample_to_key_frame_map' = sample_to_key_frame_map
                /\ kf_scans' = kf_scans
          /\ kf_scans' <= 1 ]_vars

\* The positions of the records of a table's file that carry a token.
Carriers(table_name, token) ==
    { i \in DOMAIN files(table_name) :
        "token" \in DOMAIN files(table_name)[i] /\ files(table_name)[i].token = token }

\* The last of a non-empty set of positions.
LastOf(positions) == CHOOSE i \in positions : \A j \in positions : j <= i

\* C16 (duplicate tokens): after get or getind on a table whose file is there
\* and whose records all have a token, with a token that records of the table
\* carry, be it several of them: the call succeeded, the table's index maps the
\* token to the (0-based) position of the last record that carries it, getind
\* returned that position and get returned that last record.
C16_LastWriteWins ==
    (/\ last.op \in { "get", "getind" }
     /\ last.args[1] \in TableNames \ missing
     /\ \A i \in DOMAIN files(last.args[1]) : "token" \in DOMAIN files(last.args[1])[i]
     /\ Carriers(last.args[1], last.args[2]) # {})
    => LET t == last.args[1]
           final == LastOf(Carriers(t, last.args[2]))
       IN  /\ last.exc = NoExc
           /\ token2ind[t] # None
           /\ Val(token2ind[t])[last.args[2]] = final - 1
           /\ last.op = "getind" => last.ret = final - 1
           /\ last.op = "get" => last.ret = files(t)[final]

\* C16 witness: get on a table in which two records carry the token returned the
\* later of the two, which differs from the earlier one.
C16_Witness ==
    /\ last.op = "get"
    /\ last.args[1] \in TableNames \ missing
    /\ Cardinality(Carriers(last.args[1], last.args[2])) = 2
    /\ last.exc = NoExc
    /\ last.ret = files(last.args[1])[LastOf(Carriers(last.args[1], last.args[2]))]
    /\ \E i \in Carriers(last.args[1], last.args[2]) : files(last.args[1])[i] # last.ret

\* C17 (failed load): a call of load_table on a table whose file does not exist,
\* whatever calls came before it (an earlier failed load of the same table among
\* them), raises the assertion of line 149 and returns nothing; the table stays
\* absent, every table, every reverse index and the keyframe mapping are as they
\* were, and no file was read.
C17_FailedLoad ==
    [][ (IsCall("load_table") /\ last'.args[1] \in TableNames \cap missing)
        => /\ last'.exc = AssertionError(149)
           /\ last'.ret = None
           /\ self_dict'[last'.args[1]] = None
           /\ UNCHANGED << storeVars, ghostVars >> ]_vars

\* C17 witness: the second call on a lazy store was a load_table of a table whose
\* file does not exist; it failed, and the store is as the constructor left it.
C17_Witness ==
    /\ lazy
    /\ nops = 2
    /\ last.op = "load_table"
    /\ last.args[1] \in missing
    /\ last.exc = AssertionError(149)
    /\ \A t \in TableNames : self_dict[t] = None /\ token2ind[t] = None /\ reads[t] = 0

\* The tokens of the records of an annotation table that reference a
\* sample_data, have a mask and, with an allow-list, are in it.
Selected(table_name, sample_data_token, tokens) ==
    { files(table_name)[i].token :
        i \in { j \in DOMAIN files(table_name) :
                  /\ files(table_name)[j].sample_data_token = sample_data_token
                  /\ files(table_name)[j].mask # None
                  /\ tokens = None \/ files(table_name)[j].token \in Val(tokens) } }

\* The draw calls of a render for an annotation of a layer.
DrawsFor(call, layer, token) ==
    { i \in DOMAIN call.draws : call.draws[i].layer = layer /\ call.draws[i].ann = token }

\* The annotations of a layer that a render drew.
DrawnOf(call, layer) ==
    { call.draws[i].ann : i \in { j \in DOMAIN call.draws : call.draws[j].layer = layer } }

\* C18 (annotation selection): a render with annotations that returned an image
\* drew exactly the surface annotations that reference the rendered sample_data,
\* have a mask and, with a surface allow-list, are in it, each with one fill; and
\* exactly the object annotations that reference the rendered sample_data, have
\* a mask and, with an object allow-list, are in it, each with a rectangle, a
\* label and a fill.  So a token of an allow-list that belongs to an annotation
\* of another sample_data draws nothing, and an allow-list for one kind does not
\* bear on the other kind.
C18_AnnotationSelection ==
    (last.op = "render_image" /\ last.exc = NoExc /\ last.args.with_annotations)
    => LET a == last.args
           surfaces == Selected("surface_ann", a.sample_data_token, a.surface_tokens)
           objects == Selected("object_ann", a.sample_data_token, a.object_tokens)
       IN  /\ DrawnOf(last, "surface") = surfaces
           /\ DrawnOf(last, "object") = objects
           /\ \A x \in surfaces : Cardinality(DrawsFor(last, "surface", x)) = 1
           /\ \A x \in objects :
                { last.draws[i].op : i \in DrawsFor(last, "object", x) }
                  = { "rectangle", "text", "bitmap" }
           /\ \A x \in objects : Cardinality(DrawsFor(last, "object", x)) = 3

\* C18 witness: a render returned an image; its surface allow-list held a surface
\* of the rendered sample_data, which was drawn, and a surface of another
\* sample_data, which was not; no object allow-list was given and objects were
\* drawn.
C18_Witness ==
    /\ last.op = "render_image"
    /\ last.exc = NoExc
    /\ last.args.with_annotations
    /\ last.args.surface_tokens # None
    /\ last.args.object_tokens = None
    /\ \E x \in Val(last.args.surface_tokens) : x \in DrawnOf(last, "surface")
    /\ \E x \in Val(last.args.surface_tokens) :
         /\ x \in TokensOf(files("surface_ann"))
         /\ x \notin Selected("surface_ann", last.args.sample_data_token, None)
         /\ x \notin Maskless("surface_ann")
         /\ x \notin DrawnOf(last, "surface")
    /\ DrawnOf(last, "object") # {}

\* C19 (index validity): in every state of a store used by one caller, for a
\* table whose records carry unique tokens, the reverse index is absent, or the
\* table is resident and the index holds, for every record of the table, its
\* token with its (0-based) position, and nothing else.
C19_IndexValidity ==
    \A t \in TableNames :
      (UniqueTokens(files(t)) /\ token2ind[t] # None)
      => /\ self_dict[t] # None
         /\ DOMAIN Val(token2ind[t]) = TokensOf(Val(self_dict[t]))
         /\ \A i \in DOMAIN Val(self_dict[t]) :
              Val(token2ind[t])[Val(self_dict[t])[i].token] = i - 1

====
